---- MODULE Spec2Model ----
(***************************************************************************)
(* popmon: HistSplitter (popmon/hist/hist_splitter.py) and                 *)
(* set_matplotlib_backend (popmon/visualization/backend.py).               *)
(*                                                                         *)
(* Strings that the code splits, joins or inspects character by character  *)
(* (feature names, DISPLAY) are sequences of one-character strings.        *)
(* A Python dict is a sequence of [key, val] entries in insertion order.   *)
(***************************************************************************)
EXTENDS Integers, Sequences, FiniteSets, TLC

VARIABLES
    pc,          \* position of the HistSplitter client: new/config_error/ready/loop/done/raised
    self,        \* attributes of the HistSplitter instance
    datastore,   \* the data store: [hists |-> input mapping, split |-> output]
    features,    \* transform: resolved candidate list
    idx,         \* transform: position of the for loop in features
    divided,     \* transform: the accumulator
    outcome,     \* transform: per-candidate branch taken (the branch's log call)
    calls,       \* transform: invocations of split_hist_along_first_dimension
    results,     \* one entry per finished transform call
    mpl,         \* matplotlib: installed, active backend, interactive flag, pyplot imported
    env,         \* process environment: IPython kernel, DISPLAY
    last         \* arguments and result of the last set_matplotlib_backend call

vars == <<pc, self, datastore, features, idx, divided, outcome, calls, results,
          mpl, env, last>>

splitterVars == <<pc, self, datastore, features, idx, divided, outcome, calls, results>>
backendVars == <<mpl, env, last>>

----------------------------------------------------------------------------
(* Bounds *)

MaxFeatures == 3
MaxRuns == 2
MaxCalls == 2

----------------------------------------------------------------------------
(* Python values *)

None == [kind |-> "None"]
Raise == [kind |-> "raise"]

StrKey(s) == [kind |-> "str", i |-> 0, s |-> s]
IntKey(n) == [kind |-> "int", i |-> n, s |-> <<>>]
TsKey(n) == [kind |-> "Timestamp", i |-> n, s |-> <<>>]

\* dict primitives on insertion-ordered entries
Keys(d) == [i \in 1..Len(d) |-> d[i].key]

HasKey(d, k) == \E i \in 1..Len(d) : d[i].key = k

DictSet(d, k, v) ==
    IF HasKey(d, k)
    THEN [i \in 1..Len(d) |-> IF d[i].key = k THEN [key |-> k, val |-> v] ELSE d[i]]
    ELSE Append(d, [key |-> k, val |-> v])

DictGet(d, k) == (CHOOSE i \in 1..Len(d) : d[i].key = k)

DictPop(d, k) == SelectSeq(d, LAMBDA e : e.key # k)

RECURSIVE DictUpdate(_, _)
DictUpdate(d, other) ==
    IF other = <<>> THEN d
    ELSE DictUpdate(DictSet(d, Head(other).key, Head(other).val), Tail(other))

\* str.split(":") and ":".join(...)
RECURSIVE SplitColon(_)
SplitColon(s) ==
    IF s = <<>> THEN << <<>> >>
    ELSE IF Head(s) = ":" THEN << <<>> >> \o SplitColon(Tail(s))
    ELSE LET rest == SplitColon(Tail(s))
         IN  << <<Head(s)>> \o Head(rest) >> \o Tail(rest)

RECURSIVE JoinColon(_)
JoinColon(cols) ==
    IF cols = <<>> THEN <<>>
    ELSE IF Len(cols) = 1 THEN Head(cols)
    ELSE Head(cols) \o <<":">> \o JoinColon(Tail(cols))

----------------------------------------------------------------------------
(* Inputs: histograms and feature names *)

Bin(k, n) == [bin |-> k, entries |-> n]

\* a histogram: dimensionality, temporal first axis, first-axis bins in natural order
Histograms == {
    [id |-> "h1", n_dim |-> 1, is_ts |-> FALSE, bins |-> <<Bin(0, 2)>>],
    [id |-> "hA", n_dim |-> 2, is_ts |-> FALSE, bins |-> <<Bin(0, 2), Bin(1, 0), Bin(2, 1)>>],
    [id |-> "hT", n_dim |-> 2, is_ts |-> TRUE,  bins |-> <<Bin(1, 1), Bin(3, 2)>>],
    [id |-> "hE", n_dim |-> 2, is_ts |-> FALSE, bins |-> <<Bin(0, 0)>>],
    [id |-> "h3", n_dim |-> 3, is_ts |-> FALSE, bins |-> <<Bin(0, 1), Bin(1, 0)>>] }

FeatureNames == {
    <<"x">>,
    <<"t", ":", "x">>,
    <<"a", ":", "x">>,
    <<"t", ":", "x", ":", "y">> }

VarTimestamps == { {}, { <<"a">> } }

Range(s) == { s[i] : i \in 1..Len(s) }

RECURSIVE SeqsUpTo(_, _)
SeqsUpTo(S, n) ==
    IF n = 0 THEN { <<>> }
    ELSE LET shorter == SeqsUpTo(S, n - 1)
         IN  shorter \cup { Append(s, x) : s \in { t \in shorter : Len(t) = n - 1 },
                                            x \in S }

FeatureLists ==
    { s \in SeqsUpTo(FeatureNames, MaxFeatures) :
        \A i, j \in 1..Len(s) : i # j => s[i] # s[j] }

\* input mappings {feature name -> histogram}
InputMappings ==
    UNION { [names -> Histograms] :
            names \in { S \in SUBSET FeatureNames : Cardinality(S) <= MaxFeatures } }

----------------------------------------------------------------------------
(* HistogramContainer and the projection along the first axis *)

HistogramContainer(h) == [kind |-> "HistogramContainer", hist |-> h]

n_dim(hc) == hc.hist.n_dim

is_ts(hc) == hc.hist.is_ts

SubHist(hc, b, short_keys, xname, yname) ==
    [kind |-> "hist",
     src |-> hc.hist.id,
     bin |-> b.bin,
     n_dim |-> hc.hist.n_dim - 1,
     entries |-> b.entries,
     name |-> IF short_keys THEN yname ELSE JoinColon(<<xname, yname>>)]

BinKey(b, convert_time_index) ==
    IF convert_time_index THEN TsKey(b.bin) ELSE IntKey(b.bin)

split_hist_along_first_dimension(hc, short_keys, convert_time_index, xname, yname, filter_empty) ==
    LET kept == SelectSeq(hc.hist.bins, LAMBDA b : ~filter_empty \/ b.entries > 0)
    IN  [i \in 1..Len(kept) |->
            [key |-> BinKey(kept[i], convert_time_index),
             val |-> SubHist(hc, kept[i], short_keys, xname, yname)]]

\* Module.get_features: the candidates, in their resolved order
get_features(this, keys) == SelectSeq(this.features, LAMBDA f : f \in keys)

----------------------------------------------------------------------------
(* HistSplitter *)

ConfigConflictEither(flatten_output, short_keys) == flatten_output \/ short_keys

ConfigConflict(flatten_output, short_keys) == flatten_output /\ short_keys

update_dividedReversed(this, d, split, yname) ==
    IF this.flatten_output
    THEN DictUpdate(d, split)
    ELSE DictSet(d, StrKey(yname),
                 [kind |-> "list",
                  rows |-> [i \in 1..Len(split) |->
                              [date |-> split[Len(split) + 1 - i].key,
                               histogram |->
                                   HistogramContainer(split[Len(split) + 1 - i].val)]]])

update_divided(this, d, split, yname) ==
    IF this.flatten_output
    THEN DictUpdate(d, split)
    ELSE DictSet(d, StrKey(yname),
                 [kind |-> "list",
                  rows |-> [i \in 1..Len(split) |->
                              [date |-> split[i].key,
                               histogram |-> HistogramContainer(split[i].val)]]])

NotSplittableBelowOne(hc) == n_dim(hc) < 1

NotSplittable(hc) == n_dim(hc) <= 1

InconsistentNever(cols, hc) == FALSE

Inconsistent(cols, hc) == Len(cols) # n_dim(hc)

AlreadyDivided(d, yname) == HasKey(d, StrKey(yname))

IsEmptySplitNever(split) == FALSE

IsEmptySplit(split) == split = <<>>

XName(feature) == SplitColon(feature)[1]

YName(feature) == JoinColon(Tail(SplitColon(feature)))

ProjectionOf(this, data, feature) ==
    LET hc == HistogramContainer(data[feature])
        xname == XName(feature)
        yname == YName(feature)
    IN  split_hist_along_first_dimension(
            hc, this.short_keys, is_ts(hc) \/ xname \in this.var_timestamp,
            xname, yname, this.filter_empty_split_hists)

\* the accumulator is updated before the result is tested for emptiness
LoopBodyUpdateFirst(this, data, d, feature) ==
    LET hc == HistogramContainer(data[feature])
        cols == SplitColon(feature)
        xname == cols[1]
        yname == JoinColon(Tail(cols))
        convert == is_ts(hc) \/ xname \in this.var_timestamp
        split == ProjectionOf(this, data, feature)
        call == [feature |-> feature, xname |-> xname, yname |-> yname,
                 convert_time_index |-> convert]
    IN  IF NotSplittable(hc)
        THEN [result |-> "SkippedNotSplittable", divided |-> d, call |-> <<>>]
        ELSE IF Inconsistent(cols, hc)
        THEN [result |-> "SkippedInconsistent", divided |-> d, call |-> <<>>]
        ELSE IF AlreadyDivided(d, yname)
        THEN [result |-> "SkippedDuplicate", divided |-> d, call |-> <<>>]
        ELSE IF IsEmptySplit(split)
        THEN [result |-> "SkippedEmpty",
              divided |-> update_divided(this, d, split, yname), call |-> <<call>>]
        ELSE [result |-> "Processed",
              divided |-> update_divided(this, d, split, yname),
              call |-> <<call>>]

\* one pass of the for loop body: the branch taken, the accumulator after it,
\* and the projection call made (if any)
LoopBody(this, data, d, feature) ==
    LET hc == HistogramContainer(data[feature])
        cols == SplitColon(feature)
        xname == cols[1]
        yname == JoinColon(Tail(cols))
        convert == is_ts(hc) \/ xname \in this.var_timestamp
        split == ProjectionOf(this, data, feature)
        call == [feature |-> feature, xname |-> xname, yname |-> yname,
                 convert_time_index |-> convert]
    IN  IF NotSplittable(hc)
        THEN [result |-> "SkippedNotSplittable", divided |-> d, call |-> <<>>]
        ELSE IF Inconsistent(cols, hc)
        THEN [result |-> "SkippedInconsistent", divided |-> d, call |-> <<>>]
        ELSE IF AlreadyDivided(d, yname)
        THEN [result |-> "SkippedDuplicate", divided |-> d, call |-> <<>>]
        ELSE IF IsEmptySplit(split)
        THEN [result |-> "SkippedEmpty", divided |-> d, call |-> <<call>>]
        ELSE [result |-> "Processed",
              divided |-> update_divided(this, d, split, yname),
              call |-> <<call>>]

\* pd.DataFrame(v).set_index(index_col)
DataFrameSetIndex(v) ==
    IF v.kind = "list" /\ v.rows # <<>>
    THEN [kind |-> "DataFrame",
          index |-> [i \in 1..Len(v.rows) |-> v.rows[i].date],
          histogram |-> [i \in 1..Len(v.rows) |-> v.rows[i].histogram]]
    ELSE Raise

\* for k in keys: divided[k] = pd.DataFrame(divided.pop(k)).set_index(index_col)
RECURSIVE ToTables(_, _)
ToTables(d, keys) ==
    IF keys = <<>> THEN [kind |-> "dict", items |-> d]
    ELSE LET k == Head(keys)
             t == DataFrameSetIndex(d[DictGet(d, k)].val)
         IN  IF t.kind = "raise" THEN Raise
             ELSE ToTables(DictSet(DictPop(d, k), k, t), Tail(keys))

\* divided = {} at the start of every transform call
InitialDividedKept(prev) == prev

InitialDivided(prev) == <<>>

----------------------------------------------------------------------------
(* set_matplotlib_backend *)

Digits == {"0", "1", "2", "3", "4", "5", "6", "7", "8", "9"}

LowerChar(c) ==
    CASE c = "A" -> "a"
      [] c = "T" -> "t"
      [] c = "P" -> "p"
      [] OTHER -> c

\* str.lower()
Lower(s) == [i \in 1..Len(s) |-> LowerChar(s[i])]

PyStr(s) == [kind |-> "str", s |-> s]
PyBool(b) == [kind |-> "bool", v |-> b]
PyInt(n) == [kind |-> "int", v |-> n]

\* matplotlib.rcsetup.non_interactive_bk
non_interactive_bk == << <<"a", "g", "g">>, <<"p", "d", "f">> >>

ni_backends == [i \in 1..Len(non_interactive_bk) |-> Lower(non_interactive_bk[i])]

ActiveBackends == { <<"a", "g", "g">>, <<"A", "g", "g">>, <<"T", "k", "A", "g", "g">> }

RequestedBackends ==
    { None, PyStr(<<>>), PyStr(<<"A", "g", "g">>), PyStr(<<"p", "d", "f">>),
      PyStr(<<"T", "k", "A", "g", "g">>) }

BatchArgs == { None, PyBool(TRUE), PyBool(FALSE), PyInt(1) }

Displays == { None, PyStr(<<":", "0">>), PyStr(<<"h", ":", "0">>), PyStr(<<":">>),
              PyStr(<<":", "a">>) }

\* in_ipynb: whether an IPython kernel with IPKernelApp is running
in_ipynb(e) == e.ipynb

\* check_interactive_backend; display[1] raises IndexError on a one-character DISPLAY
check_interactive_backend(e) ==
    LET run_ipynb == in_ipynb(e)
        display == e.display
    IN  IF display.kind = "None" \/ display.s = <<>> \/ display.s[1] # ":"
        THEN [raised |-> FALSE, value |-> run_ipynb]
        ELSE IF Len(display.s) < 2
        THEN [raised |-> TRUE, value |-> FALSE]
        ELSE [raised |-> FALSE, value |-> run_ipynb \/ display.s[2] \in Digits]

\* priority: 1) function arg, 2) check_interactive_backend()
RunBatch(batch, run_interactive) ==
    IF batch.kind = "bool" THEN batch.v ELSE ~run_interactive

Falsy(backend) == backend.kind = "None" \/ backend.s = <<>>

\* determine backend to be set
ChooseBackend(backend, run_batch, curr_backend) ==
    IF Falsy(backend)
    THEN (IF ~run_batch \/ curr_backend \in Range(ni_backends)
          THEN curr_backend ELSE ni_backends[1])
    ELSE Lower(backend.s)

IncompatibleNever(run_batch, backend) == FALSE

\* check if backend is compatible with mode
Incompatible(run_batch, backend) == run_batch /\ backend \notin Range(ni_backends)

\* the call: status, and matplotlib's state after it
set_matplotlib_backend(m, e, backend, batch, silent, pyplot_after) ==
    LET chk == check_interactive_backend(e)
        run_interactive == chk.value
        run_batch == RunBatch(batch, run_interactive)
        m1 == IF run_batch THEN [m EXCEPT !.interactive = FALSE] ELSE m
        pyplot_imported == m.pyplot_imported
        m2 == [m1 EXCEPT !.pyplot_imported = pyplot_after]
        curr_backend == Lower(m.backend)
        wanted == ChooseBackend(backend, run_batch, curr_backend)
        target == IF Incompatible(run_batch, wanted) THEN ni_backends[1] ELSE wanted
        info == [run_batch |-> run_batch, pyplot_imported |-> pyplot_imported,
                 curr_backend |-> curr_backend]
        none == [run_batch |-> FALSE, pyplot_imported |-> FALSE, curr_backend |-> <<>>]
    IN  IF ~m.installed
        THEN [status |-> "returned", at |-> "not installed", mpl |-> m, info |-> none]
        ELSE IF chk.raised
        THEN [status |-> "raised", at |-> "IndexError", mpl |-> m, info |-> none]
        ELSE IF ~run_batch /\ ~run_interactive /\ ~silent
        THEN [status |-> "raised", at |-> "no display", mpl |-> m, info |-> info]
        ELSE IF Incompatible(run_batch, wanted) /\ ~silent
        THEN [status |-> "raised", at |-> "non-interactive required", mpl |-> m2,
              info |-> info]
        ELSE IF target = curr_backend
        THEN [status |-> "returned", at |-> "unchanged", mpl |-> m2, info |-> info]
        ELSE IF pyplot_imported
        THEN [status |-> IF silent THEN "returned" ELSE "raised",
              at |-> "pyplot loaded", mpl |-> m2, info |-> info]
        ELSE [status |-> "returned", at |-> "use",
              mpl |-> [m2 EXCEPT !.backend = target], info |-> info]

NoCall == [n |-> 0, backend |-> None, batch |-> None, silent |-> TRUE,
           status |-> "none", at |-> "none",
           info |-> [run_batch |-> FALSE, pyplot_imported |-> FALSE, curr_backend |-> <<>>]]

BackendIdle ==
    /\ mpl = [installed |-> FALSE, backend |-> <<"a", "g", "g">>, interactive |-> FALSE,
              pyplot_imported |-> FALSE]
    /\ env = [ipynb |-> FALSE, display |-> None]
    /\ last = NoCall

SplitterIdle ==
    /\ pc = "new"
    /\ self = None
    /\ datastore = [hists |-> <<>>, split |-> None]
    /\ features = <<>>
    /\ idx = 0
    /\ divided = <<>>
    /\ outcome = <<>>
    /\ calls = <<>>
    /\ results = <<>>

----------------------------------------------------------------------------
(* Specification of HistSplitter *)

Init ==
    /\ pc = "new"
    /\ self = None
    /\ \E data \in InputMappings : datastore = [hists |-> data, split |-> None]
    /\ features = <<>>
    /\ idx = 0
    /\ divided = <<>>
    /\ outcome = <<>>
    /\ calls = <<>>
    /\ results = <<>>
    /\ BackendIdle

\* HistSplitter.__init__
Construct ==
    /\ pc = "new"
    /\ \E flatten_output \in BOOLEAN, short_keys \in BOOLEAN,
          filter_empty_split_hists \in BOOLEAN, var_timestamp \in VarTimestamps,
          fl \in FeatureLists :
         /\ Range(fl) = DOMAIN datastore.hists
         /\ self' = [kind |-> "HistSplitter",
                     features |-> fl,
                     flatten_output |-> flatten_output,
                     short_keys |-> short_keys,
                     var_timestamp |-> var_timestamp,
                     filter_empty_split_hists |-> filter_empty_split_hists]
         /\ pc' = IF ConfigConflict(flatten_output, short_keys)
                  THEN "config_error" ELSE "ready"
    /\ UNCHANGED <<datastore, features, idx, divided, outcome, calls, results>>
    /\ UNCHANGED backendVars

\* transform, lines 80-88
TransformBegin ==
    /\ pc \in {"ready", "done", "raised"}
    /\ Len(results) < MaxRuns
    /\ divided' = InitialDivided(divided)
    /\ features' = get_features(self, DOMAIN datastore.hists)
    /\ idx' = 1
    /\ outcome' = <<>>
    /\ calls' = <<>>
    /\ pc' = "loop"
    /\ UNCHANGED <<self, datastore, results>>
    /\ UNCHANGED backendVars

\* transform, lines 91-129: one candidate
LoopIteration ==
    /\ pc = "loop"
    /\ idx <= Len(features)
    /\ LET r == LoopBody(self, datastore.hists, divided, features[idx])
       IN  /\ divided' = r.divided
           /\ outcome' = Append(outcome, [feature |-> features[idx], result |-> r.result])
           /\ calls' = calls \o r.call
    /\ idx' = idx + 1
    /\ UNCHANGED <<pc, self, datastore, features, results>>
    /\ UNCHANGED backendVars

\* transform, lines 131-137
TransformFinish ==
    /\ pc = "loop"
    /\ idx > Len(features)
    /\ LET tables == ToTables(divided, Keys(divided))
       IN  IF tables.kind = "raise"
           THEN /\ pc' = "raised"
                /\ results' = Append(results, [status |-> "raised", value |-> None])
                /\ UNCHANGED <<datastore, divided>>
           ELSE /\ pc' = "done"
                /\ divided' = tables.items
                /\ datastore' = [datastore EXCEPT !.split = tables]
                /\ results' = Append(results, [status |-> "returned", value |-> tables])
    /\ UNCHANGED <<self, features, idx, outcome, calls>>
    /\ UNCHANGED backendVars

Next == Construct \/ TransformBegin \/ LoopIteration \/ TransformFinish

Spec == Init /\ [][Next]_vars

----------------------------------------------------------------------------
(* Specification of set_matplotlib_backend *)

BackendInit ==
    /\ SplitterIdle
    /\ \E installed \in BOOLEAN, backend \in ActiveBackends, interactive \in BOOLEAN,
          pyplot_imported \in BOOLEAN :
         mpl = [installed |-> installed, backend |-> backend,
                interactive |-> interactive, pyplot_imported |-> pyplot_imported]
    /\ \E ipynb \in BOOLEAN, display \in Displays :
         env = [ipynb |-> ipynb, display |-> display]
    /\ last = NoCall

\* one call of set_matplotlib_backend(backend, batch, silent); matplotlib.get_backend()
\* may import pyplot behind the scenes
SetMatplotlibBackend ==
    /\ last.n < MaxCalls
    /\ \E backend \in RequestedBackends, batch \in BatchArgs, silent \in BOOLEAN,
          pyplot_after \in BOOLEAN :
         /\ mpl.pyplot_imported => pyplot_after
         /\ LET r == set_matplotlib_backend(mpl, env, backend, batch, silent, pyplot_after)
            IN  /\ mpl' = r.mpl
                /\ last' = [n |-> last.n + 1, backend |-> backend, batch |-> batch,
                            silent |-> silent, status |-> r.status, at |-> r.at,
                            info |-> r.info]
    /\ UNCHANGED env
    /\ UNCHANGED splitterVars

BackendNext == SetMatplotlibBackend

BackendSpec == BackendInit /\ [][BackendNext]_vars

----------------------------------------------------------------------------
(* Properties *)

Started == pc \in {"loop", "done", "raised"}

Nested == Started /\ ~self.flatten_output

Flattened == Started /\ self.flatten_output

Finished == pc \in {"done", "raised"}

Data == datastore.hists

ResultOf(j) == outcome[j].result

FeatureOf(j) == outcome[j].feature

\* what the candidate is, read off the input alone
HasOneDim(f) == Data[f].n_dim <= 1

AxisMismatch(f) == Data[f].n_dim > 1 /\ Len(SplitColon(f)) # Data[f].n_dim

ProjectsToNothing(f) ==
    \A i \in 1..Len(Data[f].bins) :
        self.filter_empty_split_hists /\ Data[f].bins[i].entries = 0

PassesAllGuards(f) == ~HasOneDim(f) /\ ~AxisMismatch(f) /\ ~ProjectsToNothing(f)

\* the for loop over a candidate list, from an empty accumulator
RECURSIVE RunLoop(_, _, _, _)
RunLoop(this, data, d, fs) ==
    IF fs = <<>> THEN d
    ELSE RunLoop(this, data, LoopBody(this, data, d, Head(fs)).divided, Tail(fs))

FinishOf(d) ==
    LET tables == ToTables(d, Keys(d))
    IN  IF tables.kind = "raise"
        THEN [status |-> "raised", value |-> None]
        ELSE [status |-> "returned", value |-> tables]

LastResult == results[Len(results)]

Groups == datastore.split.items

OutputWritten == datastore.split.kind = "dict"

\* C1 (as stated, nested or flattened): a yname is populated by at most one source
\* feature per transform call; a second candidate reducing to the same yname is
\* skipped as a duplicate, not merged.
C1_OneSourcePerYname ==
    Started =>
        \A i, j \in 1..Len(outcome) :
            (i < j /\ YName(FeatureOf(i)) = YName(FeatureOf(j))
                   /\ ResultOf(i) = "Processed")
                => ResultOf(j) # "Processed"

\* C2: a candidate whose axis count differs from its histogram's dimensionality is
\* skipped, the pass goes on, and the accumulator after the loop and the result of
\* the call are those of the same pass without the inconsistent candidates.
C2_InconsistentIsolated ==
    Started =>
        LET others == SelectSeq(features, LAMBDA f : ~AxisMismatch(f))
            without == RunLoop(self, Data, <<>>, others)
        IN  /\ \A j \in 1..Len(outcome) :
                  AxisMismatch(FeatureOf(j)) => ResultOf(j) = "SkippedInconsistent"
            /\ (pc = "loop" /\ idx > Len(features)) => divided = without
            /\ Finished => /\ Len(outcome) = Len(features)
                           /\ LastResult = FinishOf(without)

C2_Witness ==
    /\ pc = "done"
    /\ \E i, j \in 1..Len(outcome) :
          /\ ResultOf(i) = "SkippedInconsistent"
          /\ ResultOf(j) = "Processed"
          /\ i < j
    /\ Len(Groups) >= 1

\* C3: construction raises the configuration error exactly when flatten_output and
\* short_keys are both true, and after that error no transform processing happens.
C3_ConfigConflictFailsFast ==
    pc # "new" =>
        /\ (pc = "config_error") <=> (self.flatten_output /\ self.short_keys)
        /\ pc = "config_error" =>
              /\ results = <<>> /\ outcome = <<>> /\ calls = <<>>
              /\ divided = <<>> /\ idx = 0
              /\ ~OutputWritten

C3_Witness == pc = "config_error" /\ self.flatten_output /\ self.short_keys

\* C4 (as stated): with flatten_output the call writes under store_key the flat
\* mapping bin value -> sub-histogram merged over the processed features, with no
\* table wrapped around the entries.
C4_FlatMappingWritten ==
    (Flattened /\ Finished) =>
        /\ pc = "done"
        /\ OutputWritten
        /\ Groups = RunLoop(self, Data, <<>>, features)
        /\ \A i \in 1..Len(Groups) : Groups[i].val.kind = "hist"

\* C5: no empty group is ever in the accumulator, and every group written under
\* store_key has at least one row.
C5_NoEmptyGroup ==
    /\ (pc = "loop") =>
          \A i \in 1..Len(divided) :
              divided[i].val.kind = "list" => Len(divided[i].val.rows) >= 1
    /\ OutputWritten =>
          \A i \in 1..Len(Groups) :
              /\ Groups[i].val.kind = "DataFrame"
              /\ Len(Groups[i].val.index) >= 1
              /\ Len(Groups[i].val.histogram) = Len(Groups[i].val.index)

C5_Witness ==
    /\ pc = "done"
    /\ \E j \in 1..Len(outcome) : ResultOf(j) = "SkippedEmpty"
    /\ Len(Groups) >= 1

\* C6: a candidate of dimensionality <= 1 is skipped as not splittable: the
\* projection is not invoked, the accumulator is unchanged and the loop goes on.
C6_OneDimSkipped ==
    [][(pc = "loop" /\ idx <= Len(features) /\ HasOneDim(features[idx]))
          => /\ divided' = divided
             /\ calls' = calls
             /\ outcome' = Append(outcome, [feature |-> features[idx],
                                            result |-> "SkippedNotSplittable"])
             /\ pc' = "loop"
             /\ idx' = idx + 1]_vars

C6_Witness ==
    /\ pc = "loop"
    /\ \E i, j \in 1..Len(outcome) :
          /\ i < j
          /\ ResultOf(i) = "Processed"
          /\ ResultOf(j) = "SkippedNotSplittable"
          /\ HasOneDim(FeatureOf(j))
    /\ divided # <<>>

\* C7: the index of the table of group yname is the key sequence of the projection
\* of the feature that populated yname, in source bin order, nothing added, dropped
\* or duplicated.
C7_RowOrderPreserved ==
    (Nested /\ pc = "done") =>
        \A g \in 1..Len(Groups) :
            \E j \in 1..Len(outcome) :
                /\ ResultOf(j) = "Processed"
                /\ StrKey(YName(FeatureOf(j))) = Groups[g].key
                /\ LET proj == ProjectionOf(self, Data, FeatureOf(j))
                       t == Groups[g].val
                   IN  /\ t.index = Keys(proj)
                       /\ t.histogram =
                            [i \in 1..Len(proj) |-> HistogramContainer(proj[i].val)]
                       /\ \A a, b \in 1..Len(t.index) :
                              a < b => t.index[a].i < t.index[b].i

C7_Witness ==
    /\ Nested /\ pc = "done"
    /\ self.filter_empty_split_hists
    /\ \E g \in 1..Len(Groups) :
          /\ Len(Groups[g].val.index) = 2
          /\ Groups[g].val.index[1].i = 0
          /\ Groups[g].val.index[2].i = 2

SameResults(rs) ==
    \A i \in 1..Len(rs) :
        /\ rs[i].status = rs[1].status
        /\ rs[i].value = rs[1].value

\* C8: every transform call on the same input mapping ends the same way and writes
\* an equal value under store_key, and the input mapping is never changed.
C8_Idempotent ==
    [][/\ datastore'.hists = datastore.hists
       /\ SameResults(results')
       /\ (pc' = "done" => datastore'.split = results'[1].value)]_vars

C8_Witness ==
    /\ Len(results) = 2
    /\ results[1].status = "returned"
    /\ results[2].status = "returned"
    /\ Len(Groups) >= 1

BatchInEffect ==
    \/ last.batch.kind = "bool" /\ last.batch.v
    \/ /\ last.batch.kind = "None"
       /\ ~check_interactive_backend(env).raised
       /\ ~check_interactive_backend(env).value

ActiveIsNonInteractive ==
    \E i \in 1..Len(non_interactive_bk) : Lower(mpl.backend) = Lower(non_interactive_bk[i])

ReturnedInBatchMode ==
    last.status = "returned" /\ mpl.installed /\ BatchInEffect

\* C9 (as stated): in batch mode a call that returns leaves a non-interactive
\* backend active, whatever was requested, current or imported.
C9_BatchMeansNonInteractive == ReturnedInBatchMode => ActiveIsNonInteractive

CannotSetSilently ==
    /\ last.silent
    /\ last.info.pyplot_imported
    /\ \A i \in 1..Len(non_interactive_bk) :
          last.info.curr_backend # Lower(non_interactive_bk[i])

\* C9 (amended): in batch mode a call that returns leaves a non-interactive
\* backend active, unless silent is true and pyplot was already imported while the
\* current backend was interactive.
C9_BatchMeansNonInteractiveUnlessPyplot ==
    (ReturnedInBatchMode /\ ~CannotSetSilently) => ActiveIsNonInteractive

C9_Witness ==
    /\ ReturnedInBatchMode
    /\ last.at = "use"
    /\ last.info.curr_backend = <<"t", "k", "a", "g", "g">>
    /\ last.backend.kind = "str"
    /\ last.backend.s = <<"T", "k", "A", "g", "g">>
    /\ ActiveIsNonInteractive

\* C10: in nested mode a candidate is processed exactly when it passes every guard
\* and no earlier candidate that passed every guard reduced to the same yname;
\* skipped candidates reserve nothing.
C10_SkippedReservesNothing ==
    Nested =>
        \A j \in 1..Len(outcome) :
            (ResultOf(j) = "Processed") <=>
                /\ PassesAllGuards(FeatureOf(j))
                /\ ~\E i \in 1..(j - 1) :
                       /\ PassesAllGuards(FeatureOf(i))
                       /\ YName(FeatureOf(i)) = YName(FeatureOf(j))

C10_Witness ==
    /\ Nested /\ pc = "done"
    /\ \E i, j \in 1..Len(outcome) :
          /\ i < j
          /\ YName(FeatureOf(i)) = YName(FeatureOf(j))
          /\ ResultOf(i) \in {"SkippedNotSplittable", "SkippedInconsistent", "SkippedEmpty"}
          /\ ResultOf(j) = "Processed"
          /\ StrKey(YName(FeatureOf(j))) = Groups[1].key

====
